---------------------------- MODULE Spec2Model ----------------------------
(***************************************************************************)
(* A model of save-manager (src/src/main.rs): the numbered snapshot store  *)
(* (backup, backup_core), the restore listing (restore) and the watch      *)
(* session (auto).                                                         *)
(*                                                                         *)
(* File names are sequences of one-character strings, so that formatting   *)
(* (usize::to_string), splitting (splitn(2, '_')), trimming (str::trim)    *)
(* and parsing (str::parse::<usize>) are computed as the code computes     *)
(* them.  Snapshot indices are naturals: usize is 64 bits wide and every   *)
(* index of the model is a small number, so neither the PosOverflow        *)
(* error of parse::<usize> nor the overflow of `x + 1` (main.rs:302) is    *)
(* within the bounds explored here.                                        *)
(***************************************************************************)
EXTENDS Integers, Sequences, FiniteSets, TLC

(***************************************************************************)
(* Bounds of the model.                                                    *)
(***************************************************************************)
\* successful snapshot creations in one behaviour
MaxCreates == 3
\* entries the environment keeps in the snapshot directory at one time
MaxExternal == 4
\* watch sessions started in one behaviour
MaxSessions == 1
\* raw write notifications counted in one burst
MaxBurst == 6
\* bursts of one watch session
MaxBursts == 2
\* events buffered in one session's channel
MaxQueue == 2
\* seconds that pass in one step of the debouncer's clock
TickSecs == 5

(***************************************************************************)
(* Program constants.                                                      *)
(***************************************************************************)
\* Duration::from_secs(10), the debounce delay handed to notify::watcher
DEBOUNCE_SECS == 10

(***************************************************************************)
(* Characters and names.                                                   *)
(***************************************************************************)
DigitChars == <<"0", "1", "2", "3", "4", "5", "6", "7", "8", "9">>

IsDigit(c) == \E i \in 1..10 : DigitChars[i] = c

DigitVal(c) == (CHOOSE i \in 1..10 : DigitChars[i] = c) - 1

\* char::is_whitespace, for the characters of the model
IsWhite(c) == c = " "

\* usize::to_string: decimal, no sign, no leading zeros
RECURSIVE to_string(_)
to_string(n) ==
    IF n < 10 THEN <<DigitChars[n + 1]>>
    ELSE to_string(n \div 10) \o <<DigitChars[(n % 10) + 1]>>

\* the value of a non-empty sequence of decimal digits
RECURSIVE DigitsValue(_)
DigitsValue(s) ==
    IF Len(s) = 0 THEN 0
    ELSE 10 * DigitsValue(SubSeq(s, 1, Len(s) - 1)) + DigitVal(s[Len(s)])

None == [ok |-> FALSE, val |-> 0]

Some(n) == [ok |-> TRUE, val |-> n]

\* str::parse::<usize>: an optional '+', then one or more decimal digits;
\* anything else (empty, "+", '-', a letter, a blank) is an Err
parse_usize(s) ==
    LET digits == IF Len(s) > 0 /\ s[1] = "+" THEN Tail(s) ELSE s
    IN  IF Len(digits) > 0 /\ \A i \in 1..Len(digits) : IsDigit(digits[i])
        THEN Some(DigitsValue(digits))
        ELSE None

\* s.splitn(2, '_').next().unwrap(): the text before the first '_'
RECURSIVE splitn_first(_)
splitn_first(s) ==
    IF Len(s) = 0 \/ s[1] = "_" THEN <<>>
    ELSE <<s[1]>> \o splitn_first(Tail(s))

\* str::trim: leading and trailing whitespace removed
RECURSIVE trim_start(_)
trim_start(s) ==
    IF Len(s) > 0 /\ IsWhite(s[1]) THEN trim_start(Tail(s)) ELSE s

RECURSIVE trim_end(_)
trim_end(s) ==
    IF Len(s) > 0 /\ IsWhite(s[Len(s)])
    THEN trim_end(SubSeq(s, 1, Len(s) - 1))
    ELSE s

trim(s) == trim_end(trim_start(s))

\* the index a directory entry's name carries, as both scans read it
NamePrefix(name) == parse_usize(splitn_first(name))


(***************************************************************************)
(* The file system: the tracked save file and the snapshot directory.      *)
(***************************************************************************)
\* save_path.join(save_file + EXTENSION) is not a regular file
NoFile == "<absent>"

\* contents the game writes to the tracked file
Bytes == {"A", "B"}

\* the content of an entry the environment put into the directory
ExtBytes == "X"

\* notes typed into the note dialog: none, plain, blank only, padded and
\* holding the separator
Notes == { <<>>,
           <<"f", "o", "o">>,
           <<" ">>,
           <<" ", "b", "_", "r", " ">> }

\* names the environment gives to entries of the snapshot directory: the
\* four of the specification's example, a zero prefix, an empty prefix and
\* a signed prefix
ExternalNames == { <<"3">>,
                   <<"7", "_", "f", "o", "o">>,
                   <<"a", "b", "c">>,
                   <<"2", "_", "b", "a", "r">>,
                   <<"0", "_", "x">>,
                   <<"_", "x">>,
                   <<"+", "3">> }

\* names the environment gives to sub-directories of the snapshot directory
ExternalDirNames == { <<"9">> }

\* the directory that appears during a watch session
WatchDirNames == { <<"1">> }

EmptyDir == [n \in {} |-> [kind |-> "file", data |-> ExtBytes, born |-> ExtBytes]]

\* an entry: its kind, its content, and (history) the content it was created
\* with by backup_core, ExtBytes for an entry the engine did not create
Entry(kind, data, born) == [kind |-> kind, data |-> data, born |-> born]

WithEntry(dir, name, e) ==
    [n \in DOMAIN dir \cup {name} |-> IF n = name THEN e ELSE dir[n]]

WithoutEntry(dir, name) == [n \in DOMAIN dir \ {name} |-> dir[n]]

SetMax(S) == CHOOSE m \in S : \A x \in S : x <= m

SetMin(S) == CHOOSE m \in S : \A x \in S : m <= x

(***************************************************************************)
(* Faulty variants of the definitions below, each the change a plausible   *)
(* slip in the code would make.  The properties are checked against them   *)
(* too, and must fail.                                                     *)
(***************************************************************************)
\* the is_file filter left out
every_entry(dir) == DOMAIN dir

\* .min() taken for .max()
save_number_min(dir) ==
    LET P == {NamePrefix(n).val :
                n \in {m \in DOMAIN dir : dir[m].kind = "file" /\ NamePrefix(m).ok}}
    IN  IF P = {} THEN 1 ELSE SetMin(P) + 1

\* Some(x) => x taken for Some(x) => x + 1
save_number_same(dir) ==
    LET P == {NamePrefix(n).val :
                n \in {m \in DOMAIN dir : dir[m].kind = "file" /\ NamePrefix(m).ok}}
    IN  IF P = {} THEN 1 ELSE SetMax(P)

\* format!("{}{}") taken for format!("{}_{}")
backup_name_unseparated(number, note) ==
    IF note = <<>> THEN to_string(number) ELSE to_string(number) \o trim(note)

\* note taken for note.trim()
backup_name_untrimmed(number, note) ==
    IF note = <<>> THEN to_string(number)
    ELSE to_string(number) \o <<"_">> \o note

\* the parse filter left out of restore
every_file(dir) == {n \in DOMAIN dir : dir[n].kind = "file"}

\* .filter(|file| file.path().is_file())
RegularFiles(dir) == {n \in DOMAIN dir : dir[n].kind = "file"}

\* .filter_map(|file| file.splitn(2, '_').next().unwrap().parse::<usize>().ok())
ParsedNumbers(dir) ==
    {NamePrefix(n).val : n \in {m \in RegularFiles(dir) : NamePrefix(m).ok}}

\* backup_core's scan: .max(), then Some(x) => x + 1, None => 1
save_number(dir) ==
    IF ParsedNumbers(dir) = {} THEN 1 ELSE SetMax(ParsedNumbers(dir)) + 1

\* the name backup_core copies to
backup_name(number, note) ==
    IF note = <<>> THEN to_string(number)
    ELSE to_string(number) \o <<"_">> \o trim(note)

\* restore's filter: regular files whose prefix parses
restore_filter(dir) == {n \in RegularFiles(dir) : NamePrefix(n).ok}

\* sort_unstable_by_key over read_dir's arbitrary order: every arrangement
\* of the names that ascends by key
RECURSIVE sort_unstable_by_key(_)
sort_unstable_by_key(S) ==
    IF S = {} THEN {<<>>}
    ELSE LET least == SetMin({NamePrefix(n).val : n \in S})
             firsts == {n \in S : NamePrefix(n).val = least}
         IN  UNION { {<<n>> \o t : t \in sort_unstable_by_key(S \ {n})}
                     : n \in firsts }

Reverse(t) == [i \in 1..Len(t) |-> t[Len(t) + 1 - i]]

\* faulty variant: the listing sorted by descending key
restore_items_descending(dir) ==
    {Reverse(t) : t \in sort_unstable_by_key(
                            {n \in RegularFiles(dir) : NamePrefix(n).ok})}

\* the listings restore may show: the filtered names, sorted by key
restore_items(dir) == sort_unstable_by_key(restore_filter(dir))

\* fs::copy(from, to) can write `to`: it is absent or a regular file
CanWrite(dir, name) == name \notin DOMAIN dir \/ dir[name].kind = "file"

\* faulty variant: an existing destination is left as it is
copy_into_new(dir, name, data) ==
    IF name \in DOMAIN dir THEN dir
    ELSE [n \in DOMAIN dir \cup {name} |->
            IF n = name THEN [kind |-> "file", data |-> data, born |-> data]
            ELSE dir[n]]

\* the directory after fs::copy of content `data` to `name`
copy_into(dir, name, data) ==
    WithEntry(dir, name,
              Entry("file", data,
                    IF name \in DOMAIN dir /\ dir[name].born # ExtBytes
                    THEN dir[name].born ELSE data))

(***************************************************************************)
(* The state.                                                              *)
(***************************************************************************)
VARIABLES
    save_file,   \* the "save_file" key of the configuration, Unset if absent
    file,        \* the tracked save file: its content, or NoFile
    dir_exists,  \* backup_path.join(save_file) is a directory
    entries,     \* the entries of that directory: name -> Entry
    layers,      \* the dialogs stacked above the main menu, topmost last
    items,       \* the listing held by the open restore dialog
    ui,          \* the event-loop thread: idle, or inside backup_core
    sessions,    \* watch sessions started so far
    watcher,     \* the notify watcher of the latest session and its debouncer
    chan,        \* per session: the events buffered in its mpsc channel
    thread,      \* per session: the spawned thread's position
    assigned,    \* history: the snapshots created so far, in order
    deleted,     \* history: an entry of the directory has been deleted
    last         \* history: the step that led to this state

vars == <<save_file, file, dir_exists, entries, layers, items, ui, sessions,
          watcher, chan, thread, assigned, deleted, last>>

Unset == ""

TheGame == "game"

Sessions == 1..MaxSessions

\* the event-loop thread outside backup_core
UiIdle == [pc |-> "idle", number |-> 0, note |-> <<>>, via |-> "none"]

\* no watcher: none was created yet, or the last one was dropped
NoWatcher == [alive |-> FALSE, watching |-> FALSE, pending |-> FALSE,
              quiet |-> 0, burst |-> 0, bursts |-> 0]

\* a session's thread before thread::spawn
\* (history: its session was cancelled, the backup_core it runs was begun
\* after that, the Write events sent to it)
NotSpawned == [pc |-> "none", number |-> 0, cancelled |-> FALSE, late |-> FALSE,
               emitted |-> 0]

\* what a step did: the operation, who ran it (0: the event loop, s: the
\* thread of session s), how it ended, and the entry it wrote or read
Step(op, who, outcome, name) ==
    [op |-> op, who |-> who, outcome |-> outcome, name |-> name]

EnvStep == Step("env", 0, "", <<>>)

Top == IF layers = <<>> THEN "menu" ELSE layers[Len(layers)]

Push(l) == Append(layers, l)

Pop == SubSeq(layers, 1, Len(layers) - 1)

\* dialogs that show a text and an Ok button (main.rs:145, 247, 382)
Messages == { "Error occurred: No file has been set to backup.",
              "Error occurred: No save file has been set.",
              "Error occurred: read_dir",
              "Error occurred: copy",
              "Error occurred: watch",
              "Save file not found." }

\* creations under way: past the scan, before the copy
InFlight ==
    (IF ui.pc = "copy" THEN 1 ELSE 0)
    + Cardinality({s \in Sessions : thread[s].pc = "copy"})

\* the bound on creations leaves room for one more
MayCreate == Len(assigned) + InFlight < MaxCreates

Init ==
    /\ save_file \in {Unset, TheGame}
    /\ file \in {NoFile, "A"}
    /\ dir_exists = FALSE
    /\ entries = EmptyDir
    /\ layers = <<>>
    /\ items = <<>>
    /\ ui = UiIdle
    /\ sessions = 0
    /\ watcher = NoWatcher
    /\ chan = [s \in Sessions |-> <<>>]
    /\ thread = [s \in Sessions |-> NotSpawned]
    /\ assigned = <<>>
    /\ deleted = FALSE
    /\ last = Step("init", 0, "", <<>>)

(***************************************************************************)
(* The snapshot store: backup and backup_core.                             *)
(***************************************************************************)
\* a snapshot created: its index, who created it (0: the event loop, s: the
\* thread of session s) and whether that session had been cancelled when
\* the backup_core that created it was begun
Created(index, by, late) == [index |-> index, by |-> by, late |-> late]

\* faulty variant: the configuration is not looked at
no_save_file_unnoticed == FALSE

\* general.get("save_file") is None (main.rs:239, 323, 367)
no_save_file == save_file = Unset

\* backup (main.rs:229): "Make a new backup" and "... (with note)"
Backup(has_note) ==
    /\ ui.pc = "idle"
    /\ Top = "menu"
    /\ UNCHANGED <<save_file, file, entries, items, sessions, watcher, chan,
                   thread, assigned, deleted>>
    /\ IF no_save_file
       THEN /\ layers' = Push("Error occurred: No file has been set to backup.")
            /\ last' = Step("backup", 0, "NotConfigured", <<>>)
            /\ UNCHANGED <<dir_exists, ui>>
       ELSE IF file = NoFile
       THEN /\ layers' = Push("Save file not found.")
            /\ last' = Step("backup", 0, "SourceMissing", <<>>)
            /\ UNCHANGED <<dir_exists, ui>>
       ELSE /\ dir_exists' = TRUE
            /\ IF has_note
               THEN /\ layers' = Push("note")
                    /\ last' = Step("backup", 0, "note dialog", <<>>)
                    /\ UNCHANGED ui
               ELSE /\ MayCreate
                    /\ ui' = [pc |-> "copy", number |-> save_number(entries),
                              note |-> <<>>, via |-> "backup"]
                    /\ last' = Step("backup", 0, "scanned", <<>>)
                    /\ UNCHANGED layers

\* the note dialog's on_submit and its Enter button (main.rs:264, 275):
\* backup_core up to the scan
NoteSubmit(note) ==
    /\ ui.pc = "idle"
    /\ Top = "note"
    /\ MayCreate
    /\ ui' = [pc |-> "copy", number |-> save_number(entries),
              note |-> note, via |-> "note"]
    /\ last' = Step("note", 0, "scanned", <<>>)
    /\ UNCHANGED <<save_file, file, dir_exists, entries, layers, items,
                   sessions, watcher, chan, thread, assigned, deleted>>

\* the note dialog's Cancel button (main.rs:272)
NoteCancel ==
    /\ ui.pc = "idle"
    /\ Top = "note"
    /\ layers' = Pop
    /\ last' = Step("note", 0, "cancelled", <<>>)
    /\ UNCHANGED <<save_file, file, dir_exists, entries, items, ui, sessions,
                   watcher, chan, thread, assigned, deleted>>

\* faulty variant: a missing source goes unnoticed
copy_outcome_unchecked(name) ==
    IF ~CanWrite(entries, name) THEN "IOError" ELSE "created"

\* how fs::copy(file_path, backup_dir.join(name)) ends
copy_outcome(name) ==
    IF file = NoFile THEN "SourceMissing"
    ELSE IF ~CanWrite(entries, name) THEN "IOError"
    ELSE "created"

\* backup_core from the copy on (main.rs:306), run by the event loop.  An
\* Err reaches select_option's dialog from "Make a new backup" and the log
\* from the note dialog, which is popped either way.
UiCopy ==
    /\ ui.pc = "copy"
    /\ LET name == backup_name(ui.number, ui.note)
           outcome == copy_outcome(name)
       IN  /\ IF outcome = "created"
              THEN /\ entries' = copy_into(entries, name, file)
                   /\ assigned' = Append(assigned, Created(ui.number, 0, FALSE))
              ELSE UNCHANGED <<entries, assigned>>
           /\ layers' = IF ui.via = "note" THEN Pop
                        ELSE IF outcome = "created" THEN layers
                        ELSE Push("Error occurred: copy")
           /\ last' = Step("backup_core", 0, outcome, name)
    /\ ui' = UiIdle
    /\ UNCHANGED <<save_file, file, dir_exists, items, sessions, watcher,
                   chan, thread, deleted>>

\* the Ok button of a message dialog
DismissMessage ==
    /\ ui.pc = "idle"
    /\ Top \in Messages
    /\ layers' = Pop
    /\ last' = Step("ok", 0, "", <<>>)
    /\ UNCHANGED <<save_file, file, dir_exists, entries, items, ui, sessions,
                   watcher, chan, thread, assigned, deleted>>

(***************************************************************************)
(* set_game (main.rs:152).                                                 *)
(***************************************************************************)
\* "Set a new working game": the dialog listing the save files
SetGame ==
    /\ ui.pc = "idle"
    /\ Top = "menu"
    /\ layers' = Push("select game")
    /\ last' = Step("set_game", 0, "", <<>>)
    /\ UNCHANGED <<save_file, file, dir_exists, entries, items, ui, sessions,
                   watcher, chan, thread, assigned, deleted>>

\* a listed save file is chosen (main.rs:166); the list holds the tracked
\* file only while it exists
SelectGame ==
    /\ ui.pc = "idle"
    /\ Top = "select game"
    /\ file # NoFile
    /\ save_file' = TheGame
    /\ layers' = Pop
    /\ last' = Step("set_game", 0, "selected", <<>>)
    /\ UNCHANGED <<file, dir_exists, entries, items, ui, sessions, watcher,
                   chan, thread, assigned, deleted>>

\* "Manually enter save name" (main.rs:186) replaces the list by an edit box
ManualEntry ==
    /\ ui.pc = "idle"
    /\ Top = "select game"
    /\ layers' = Append(Pop, "manual entry")
    /\ last' = Step("set_game", 0, "manual", <<>>)
    /\ UNCHANGED <<save_file, file, dir_exists, entries, items, ui, sessions,
                   watcher, chan, thread, assigned, deleted>>

\* the edit box is submitted with a name (main.rs:199), or cancelled
ManualSubmit(ok) ==
    /\ ui.pc = "idle"
    /\ Top = "manual entry"
    /\ save_file' = IF ok THEN TheGame ELSE save_file
    /\ layers' = Pop
    /\ last' = Step("set_game", 0, IF ok THEN "entered" ELSE "cancelled", <<>>)
    /\ UNCHANGED <<file, dir_exists, entries, items, ui, sessions, watcher,
                   chan, thread, assigned, deleted>>

(***************************************************************************)
(* restore (main.rs:320).                                                  *)
(***************************************************************************)
\* "Restore a backup": the listing is built and shown
Restore ==
    /\ ui.pc = "idle"
    /\ Top = "menu"
    /\ UNCHANGED <<save_file, file, dir_exists, entries, ui, sessions,
                   watcher, chan, thread, assigned, deleted>>
    /\ IF no_save_file
       THEN /\ layers' = Push("Error occurred: No save file has been set.")
            /\ last' = Step("restore", 0, "NotConfigured", <<>>)
            /\ UNCHANGED items
       ELSE IF ~dir_exists
       THEN /\ layers' = Push("Error occurred: read_dir")
            /\ last' = Step("restore", 0, "DirectoryUnreadable", <<>>)
            /\ UNCHANGED items
       ELSE /\ items' \in restore_items(entries)
            /\ layers' = Push("restore")
            /\ last' = Step("restore", 0, "listed", <<>>)

\* faulty variant: the snapshot is moved onto the tracked file
moved_from(dir, name) == [n \in DOMAIN dir \ {name} |-> dir[n]]

\* the directory after fs::copy(game_backup_folder.join(name), ..): the
\* file copied from stays as it is (main.rs:344)
copied_from(dir, name) == dir

\* an item of the listing is chosen (main.rs:343): fs::copy back onto the
\* tracked file; an Err adds a dialog that has no button
RestoreSelect(i) ==
    /\ ui.pc = "idle"
    /\ Top = "restore"
    /\ i \in 1..Len(items)
    /\ LET name == items[i]
       IN  IF name \in RegularFiles(entries)
           THEN /\ file' = entries[name].data
                /\ entries' = copied_from(entries, name)
                /\ layers' = Pop
                /\ items' = <<>>
                /\ last' = Step("restore", 0, "restored", name)
           ELSE /\ layers' = Push("restore error")
                /\ last' = Step("restore", 0, "IOError", name)
                /\ UNCHANGED <<file, items, entries>>
    /\ UNCHANGED <<save_file, dir_exists, ui, sessions, watcher, chan, thread,
                   assigned, deleted>>

\* the restore dialog's Cancel button (main.rs:357)
RestoreCancel ==
    /\ ui.pc = "idle"
    /\ Top = "restore"
    /\ layers' = Pop
    /\ items' = <<>>
    /\ last' = Step("restore", 0, "cancelled", <<>>)
    /\ UNCHANGED <<save_file, file, dir_exists, entries, ui, sessions,
                   watcher, chan, thread, assigned, deleted>>

(***************************************************************************)
(* auto (main.rs:364): the watcher, its channel and the spawned thread.    *)
(* The watcher is notify's debounced one (main.rs:372): the first raw      *)
(* write of a burst is announced by NoticeWrite at once, and Write follows *)
(* when DEBOUNCE_SECS have passed without another event for the path.      *)
(***************************************************************************)
\* the receiver of session s is still held by its thread
Receiving(s) == thread[s].pc \in {"recv", "copy"}

\* the channel of session s still has a sender: the watcher created for it
\* has not been dropped
Connected(s) == watcher.alive /\ sessions = s

\* tx.send(event): buffered, or discarded once the receiver is gone
send(s, event) ==
    IF Receiving(s) THEN [chan EXCEPT ![s] = Append(@, event)] ELSE chan

\* the bound on a channel leaves room for one more event
MaySend(s) == Len(chan[s]) < MaxQueue

\* faulty variant: a watch on a missing path is taken to succeed
watch_succeeds == FALSE

\* watcher.watch(path, NonRecursive) returns an Err (main.rs:373): there is
\* nothing at the path to watch
watch_fails == file = NoFile

\* "Automatically take backups"
Auto ==
    /\ ui.pc = "idle"
    /\ Top = "menu"
    /\ UNCHANGED <<save_file, file, entries, items, ui, assigned, deleted>>
    /\ IF no_save_file
       THEN /\ layers' = Push("Error occurred: No save file has been set.")
            /\ last' = Step("auto", 0, "NotConfigured", <<>>)
            /\ UNCHANGED <<dir_exists, sessions, watcher, chan, thread>>
       ELSE IF watch_fails
       THEN \* notify::watcher(..)? or watcher.watch(..)? returns the Err;
            \* channel and watcher are dropped with it
            /\ layers' = Push("Error occurred: watch")
            /\ last' = Step("auto", 0, "WatchInitError", <<>>)
            /\ UNCHANGED <<dir_exists, sessions, watcher, chan, thread>>
       ELSE IF file = NoFile
       THEN \* !file_path.is_file() (main.rs:380): the watcher is dropped
            \* when auto returns
            /\ layers' = Push("Save file not found.")
            /\ last' = Step("auto", 0, "SourceMissing", <<>>)
            /\ UNCHANGED <<dir_exists, sessions, watcher, chan, thread>>
       ELSE /\ sessions < MaxSessions
            /\ sessions' = sessions + 1
            /\ watcher' = [NoWatcher EXCEPT !.alive = TRUE, !.watching = TRUE]
            /\ dir_exists' = TRUE
            /\ thread' = [thread EXCEPT ![sessions + 1].pc = "recv"]
            /\ chan' = [chan EXCEPT ![sessions + 1] = <<>>]
            /\ layers' = Push("cancel")
            /\ last' = Step("auto", 0, "watching", <<>>)

\* the Cancel button of the watch dialog (main.rs:413): the dialog and,
\* with its closure, the watcher are dropped
CancelAuto ==
    /\ ui.pc = "idle"
    /\ Top = "cancel"
    /\ watcher' = [NoWatcher EXCEPT !.burst = watcher.burst,
                                    !.bursts = watcher.bursts]
    /\ thread' = [thread EXCEPT ![sessions].cancelled = TRUE]
    /\ layers' = Pop
    /\ last' = Step("cancel", 0, "", <<>>)
    /\ UNCHANGED <<save_file, file, dir_exists, entries, items, ui, sessions,
                   chan, assigned, deleted>>

\* faulty variant: the raw write's notice answered like the debounced Write
triggers_on_notice(event) == event \in {"Write", "NoticeWrite"}

\* faulty variant: `if let DebouncedEvent::Write(_)` left out
triggers_on_any(event) == TRUE

\* faulty variant: the loop goes on after an Err
after_error_continue == "recv"

\* the events the spawned loop answers with backup_core (main.rs:394)
triggers(event) == event = "Write"

\* where the spawned loop goes when backup_core returns Err (main.rs:396):
\* the error is logged and the loop is left
after_error == "faulted"

\* the spawned loop's rx.recv() (main.rs:393) and what follows it up to
\* backup_core's scan: a DebouncedEvent::Write starts backup_core, any other
\* event is dropped, and a channel without sender and without event ends
\* the loop
ThreadRecv(s) ==
    /\ thread[s].pc = "recv"
    /\ UNCHANGED <<save_file, file, dir_exists, entries, layers, items, ui,
                   sessions, watcher, assigned, deleted>>
    /\ IF chan[s] # <<>>
       THEN /\ chan' = [chan EXCEPT ![s] = Tail(@)]
            /\ IF triggers(Head(chan[s]))
               THEN /\ MayCreate
                    /\ thread' = [thread EXCEPT
                                    ![s].pc = "copy",
                                    ![s].number = save_number(entries),
                                    ![s].late = thread[s].cancelled]
                    /\ last' = Step("recv", s, "scanned", <<>>)
               ELSE /\ UNCHANGED thread
                    /\ last' = Step("recv", s, "ignored", <<Head(chan[s])>>)
       ELSE /\ ~Connected(s)
            /\ thread' = [thread EXCEPT ![s].pc = "closed"]
            /\ last' = Step("recv", s, "WatchChannelError", <<>>)
            /\ UNCHANGED chan

\* backup_core from the copy on, run by the spawned loop (main.rs:396): an
\* Err is logged and breaks the loop, which drops the receiver
ThreadCopy(s) ==
    /\ thread[s].pc = "copy"
    /\ LET name == backup_name(thread[s].number, <<>>)
           outcome == copy_outcome(name)
       IN  /\ IF outcome = "created"
              THEN /\ entries' = copy_into(entries, name, file)
                   /\ assigned' = Append(assigned,
                          Created(thread[s].number, s, thread[s].late))
                   /\ thread' = [thread EXCEPT ![s].pc = "recv",
                                               ![s].number = 0,
                                               ![s].late = FALSE]
                   /\ UNCHANGED chan
              ELSE /\ thread' = [thread EXCEPT ![s].pc = after_error,
                                               ![s].number = 0,
                                               ![s].late = FALSE]
                   /\ chan' = [chan EXCEPT ![s] =
                                  IF after_error = "faulted" THEN <<>> ELSE @]
                   /\ UNCHANGED <<entries, assigned>>
           /\ last' = Step("backup_core", s, outcome, name)
    /\ UNCHANGED <<save_file, file, dir_exists, layers, items, ui, sessions,
                   watcher, deleted>>

\* the debouncer on a raw write notification for the watched path
raw_write(w) ==
    IF w.pending
    THEN [w EXCEPT !.quiet = 0, !.burst = @ + 1]
    ELSE [w EXCEPT !.pending = TRUE, !.quiet = 0, !.burst = 1,
                   !.bursts = @ + 1]

\* the game writes the tracked file in place; a watcher that watches it
\* gets a raw write notification
ExternalWrite(b) ==
    /\ file' = b
    /\ IF watcher.alive /\ watcher.watching /\ file # NoFile
       THEN /\ IF watcher.pending THEN watcher.burst < MaxBurst
                                  ELSE /\ watcher.bursts < MaxBursts
                                       /\ MaySend(sessions)
            /\ watcher' = raw_write(watcher)
            /\ chan' = IF watcher.pending THEN chan
                       ELSE send(sessions, "NoticeWrite")
       ELSE UNCHANGED <<watcher, chan>>
    /\ last' = EnvStep
    /\ UNCHANGED <<save_file, dir_exists, entries, layers, items, ui,
                   sessions, thread, assigned, deleted>>

\* the tracked file is removed: a watcher that watches it announces the
\* removal, which supersedes a pending write, and loses its watch
ExternalRemove ==
    /\ file # NoFile
    /\ file' = NoFile
    /\ IF watcher.alive /\ watcher.watching
       THEN /\ MaySend(sessions)
            /\ watcher' = [watcher EXCEPT !.watching = FALSE,
                                          !.pending = FALSE, !.quiet = 0]
            /\ chan' = send(sessions, "NoticeRemove")
       ELSE UNCHANGED <<watcher, chan>>
    /\ last' = EnvStep
    /\ UNCHANGED <<save_file, dir_exists, entries, layers, items, ui,
                   sessions, thread, assigned, deleted>>

\* the watcher reports an error of its own: DebouncedEvent::Error is sent
\* like any other event
NotifyError ==
    /\ watcher.alive
    /\ MaySend(sessions)
    /\ chan' = send(sessions, "Error")
    /\ last' = EnvStep
    /\ UNCHANGED <<save_file, file, dir_exists, entries, layers, items, ui,
                   sessions, watcher, thread, assigned, deleted>>

\* time passes without an event for the watched path
Tick ==
    /\ watcher.alive
    /\ watcher.pending
    /\ watcher.quiet < DEBOUNCE_SECS
    /\ watcher' = [watcher EXCEPT !.quiet = @ + TickSecs]
    /\ last' = EnvStep
    /\ UNCHANGED <<save_file, file, dir_exists, entries, layers, items, ui,
                   sessions, chan, thread, assigned, deleted>>

\* the quiet period a debounced event waits for
debounce_delay == DEBOUNCE_SECS

\* the debouncer's timer: the burst has been quiet for the delay, so its
\* DebouncedEvent::Write is sent
DebounceFire ==
    /\ watcher.alive
    /\ watcher.pending
    /\ watcher.quiet >= debounce_delay
    /\ MaySend(sessions)
    /\ watcher' = [watcher EXCEPT !.pending = FALSE, !.quiet = 0]
    /\ chan' = send(sessions, "Write")
    /\ thread' = [thread EXCEPT ![sessions].emitted = @ + 1]
    /\ last' = Step("debounce", sessions, "Write", <<>>)
    /\ UNCHANGED <<save_file, file, dir_exists, entries, layers, items, ui,
                   sessions, assigned, deleted>>

(***************************************************************************)
(* The environment's changes of the snapshot directory.                    *)
(***************************************************************************)
ExternalEntries == {n \in DOMAIN entries : entries[n].born = ExtBytes}

\* a file or a sub-directory appears in the snapshot directory
ExternalAdd(name, kind) ==
    /\ dir_exists
    /\ name \notin DOMAIN entries
    /\ Cardinality(ExternalEntries) < MaxExternal
    /\ entries' = WithEntry(entries, name, Entry(kind, ExtBytes, ExtBytes))
    /\ last' = EnvStep
    /\ UNCHANGED <<save_file, file, dir_exists, layers, items, ui, sessions,
                   watcher, chan, thread, assigned, deleted>>

\* an entry of the snapshot directory is deleted
ExternalDelete(name) ==
    /\ name \in DOMAIN entries
    /\ entries' = WithoutEntry(entries, name)
    /\ deleted' = TRUE
    /\ last' = EnvStep
    /\ UNCHANGED <<save_file, file, dir_exists, layers, items, ui, sessions,
                   watcher, chan, thread, assigned>>

(***************************************************************************)
(* Specifications.                                                         *)
(***************************************************************************)
\* the snapshot store and the restore dialog, used from the menu
StoreStep ==
    \/ \E has_note \in BOOLEAN : Backup(has_note)
    \/ \E note \in Notes : NoteSubmit(note)
    \/ NoteCancel
    \/ UiCopy
    \/ DismissMessage
    \/ Restore
    \/ \E i \in 1..MaxCreates : RestoreSelect(i)
    \/ RestoreCancel

\* the environment of the store: the game rewrites or removes its save
\* file, and snapshots are deleted by hand
StoreEnv ==
    \/ \E b \in Bytes : ExternalWrite(b)
    \/ ExternalRemove
    \/ \E name \in DOMAIN entries : ExternalDelete(name)

NextStore == StoreStep \/ StoreEnv

SpecStore == Init /\ [][NextStore]_vars

\* the two scans of the directory (backup_core's and restore's) over
\* directories that hold foreign entries, which come and go between the
\* operations
ScanStep ==
    \/ Backup(FALSE)
    \/ UiCopy
    \/ DismissMessage
    \/ Restore
    \/ RestoreCancel

ScanEnv ==
    /\ Top = "menu"
    /\ ui.pc = "idle"
    /\ \/ \E name \in ExternalNames : ExternalAdd(name, "file")
       \/ \E name \in ExternalDirNames : ExternalAdd(name, "dir")
       \/ \E name \in DOMAIN entries : ExternalDelete(name)

NextScan == ScanStep \/ ScanEnv

SpecScan == Init /\ [][NextScan]_vars

\* watch sessions: the game writes its save file, the debouncer's clock
\* runs, the spawned threads take snapshots
WatchStep ==
    \/ Auto
    \/ CancelAuto
    \/ \E s \in Sessions : ThreadRecv(s)
    \/ \E s \in Sessions : ThreadCopy(s)
    \/ Tick
    \/ DebounceFire
    \/ DismissMessage

\* the environment of a watch session: the game saves (what it saves does
\* not matter to the watcher, so one content stands for all), the save file
\* is removed, and a directory takes the name of the first snapshot
WatchEnv ==
    \/ ExternalWrite("B")
    \/ ExternalRemove
    \/ \E name \in WatchDirNames : ExternalAdd(name, "dir")

NextWatch == WatchStep \/ WatchEnv

SpecWatch == Init /\ [][NextWatch]_vars

\* watch sessions whose watcher also reports errors; the game saves once
\* per quiet period
EventsEnv ==
    \/ ~watcher.pending /\ ExternalWrite("B")
    \/ ExternalRemove
    \/ ~watcher.pending /\ NotifyError

NextEvents == WatchStep \/ EventsEnv

SpecEvents == Init /\ [][NextEvents]_vars

\* the menu from program start: the game is chosen or not, and each
\* operation is tried
ConfigStep ==
    \/ SetGame
    \/ SelectGame
    \/ ManualEntry
    \/ \E ok \in BOOLEAN : ManualSubmit(ok)
    \/ \E has_note \in BOOLEAN : Backup(has_note)
    \/ NoteCancel
    \/ UiCopy
    \/ Restore
    \/ RestoreCancel
    \/ Auto
    \/ CancelAuto
    \/ \E s \in Sessions : ThreadRecv(s)
    \/ DismissMessage

ConfigEnv == ExternalRemove

NextConfig == ConfigStep \/ ConfigEnv

SpecConfig == Init /\ [][NextConfig]_vars

\* a manual backup beside a watch session's thread: the menu is reached
\* again when the session is cancelled, while its thread may still hold a
\* Write or be inside backup_core; the game saves once per quiet period,
\* something new each time
RaceStep ==
    \/ Backup(FALSE)
    \/ UiCopy
    \/ DismissMessage
    \/ Auto
    \/ CancelAuto
    \/ \E s \in Sessions : ThreadRecv(s)
    \/ \E s \in Sessions : ThreadCopy(s)
    \/ Tick
    \/ DebounceFire

\* each save of the game differs from the one before
NextBytes(f) == IF f = "A" THEN "B" ELSE "A"

RaceEnv == ~watcher.pending /\ ExternalWrite(NextBytes(file))

NextRace == RaceStep \/ RaceEnv

SpecRace == Init /\ [][NextRace]_vars

\* the whole program and its environment
Next ==
    \/ StoreStep
    \/ SetGame
    \/ SelectGame
    \/ ManualEntry
    \/ \E ok \in BOOLEAN : ManualSubmit(ok)
    \/ WatchStep
    \/ StoreEnv
    \/ \E name \in ExternalNames : ExternalAdd(name, "file")
    \/ \E name \in ExternalDirNames \cup WatchDirNames : ExternalAdd(name, "dir")
    \/ NotifyError

Spec == Init /\ [][Next]_vars

(***************************************************************************)
(* Properties of the snapshot store.                                       *)
(***************************************************************************)
\* the index a name carries: the decimal number before its first '_'
IndexOf(name) == parse_usize(splitn_first(name))

IsSnapshot(dir, name) ==
    name \in DOMAIN dir /\ dir[name].kind = "file" /\ IndexOf(name).ok

Indices(dir) == {IndexOf(n).val : n \in {m \in DOMAIN dir : IsSnapshot(dir, m)}}

Range(seq) == {seq[i] : i \in 1..Len(seq)}

\* nothing but the engine's own creations ever changed the directory
Pristine == ~deleted /\ ExternalEntries = {}

\* C1: after N successful sequential creates on an initially empty
\* directory, with any mix of notes, the entries' indices are exactly
\* 1..N and each index is carried by exactly one entry.
C1_IndicesAreOneToN ==
    Pristine =>
        /\ \A n \in DOMAIN entries : IsSnapshot(entries, n)
        /\ Indices(entries) = 1..Len(assigned)
        /\ \A k \in 1..Len(assigned) :
              Cardinality({n \in DOMAIN entries : IndexOf(n).val = k}) = 1

\* C1's case: three creates, noted and unnoted ones among them
C1_Witness ==
    /\ Pristine
    /\ Len(assigned) = 3
    /\ \E n \in DOMAIN entries : Len(n) = 1
    /\ \E n \in DOMAIN entries : Len(n) > 2

StrictlyIncreasing ==
    \A i, j \in 1..Len(assigned) :
        i < j => assigned[i].index < assigned[j].index

\* C2 as stated: in every sequential history of creates, external deletions
\* included, each create's index exceeds every index assigned before.
C2_NeverReusesAnIndex == StrictlyIncreasing

\* C2 as amended: in a sequential history of creates in which no entry of
\* the directory is deleted, each create's index exceeds every index
\* assigned before.
C2_IncreasingWhileNothingIsDeleted == ~deleted => StrictlyIncreasing

\* C2's case: several creates and no deletion
C2_Witness == ~deleted /\ Len(assigned) >= 2 /\ last.outcome = "created"

\* C3: the number backup_core's scan yields is 1 plus the greatest index
\* among the regular files whose prefix parses, and 1 when there is none.
C3_NextIndexIsMaxPlusOne ==
    (ui.pc = "copy" /\ last.outcome = "scanned") =>
        IF Indices(entries) = {} THEN ui.number = 1
        ELSE /\ ui.number - 1 \in Indices(entries)
             /\ \A x \in Indices(entries) : x <= ui.number - 1

\* C3's case: the directory {"3", "7_foo", "abc", "2_bar"} gives 8
ExampleDir == { <<"3">>, <<"7", "_", "f", "o", "o">>, <<"a", "b", "c">>,
                <<"2", "_", "b", "a", "r">> }

C3_Witness ==
    /\ ui.pc = "copy"
    /\ last.outcome = "scanned"
    /\ DOMAIN entries = ExampleDir
    /\ ui.number = 8

\* C4: the restore listing holds exactly the regular files whose prefix
\* parses, each once, in ascending order of that number.
C4_ListingIsFilteredAndSorted ==
    (Top = "restore" /\ last.outcome = "listed") =>
        /\ Range(items) = {n \in DOMAIN entries : IsSnapshot(entries, n)}
        /\ \A i, j \in 1..Len(items) :
              i < j => /\ items[i] # items[j]
                       /\ IndexOf(items[i]).val <= IndexOf(items[j]).val

\* C4's case: the same directory is listed as ["2_bar", "3", "7_foo"]
C4_Witness ==
    /\ Top = "restore"
    /\ last.outcome = "listed"
    /\ DOMAIN entries = ExampleDir
    /\ items = << <<"2", "_", "b", "a", "r">>, <<"3">>,
                  <<"7", "_", "f", "o", "o">> >>

\* the greatest index plus one, over a set of names
NextOver(names) ==
    LET P == {IndexOf(n).val : n \in {m \in names : IndexOf(m).ok}}
    IN  IF P = {} THEN 1 ELSE SetMax(P) + 1

\* an entry that does not begin with a parseable positive integer
NotPositive(name) == ~IndexOf(name).ok \/ IndexOf(name).val = 0

\* C5 as stated: an entry whose prefix is not a parseable positive integer
\* (not a number, empty, or zero) is never listed and never changes the
\* next index.
C5_OnlyPositivePrefixesCount ==
    /\ (Top = "restore" /\ last.outcome = "listed") =>
          \A i \in 1..Len(items) : ~NotPositive(items[i])
    /\ (ui.pc = "copy" /\ last.outcome = "scanned") =>
          ui.number = NextOver({n \in DOMAIN entries :
                           entries[n].kind = "file" /\ ~NotPositive(n)})

\* C5 as amended: an entry whose prefix does not parse as an unsigned
\* integer is never listed; an entry whose prefix does not parse or is zero
\* never changes the next index; both scans succeed whatever the names
\* are.  A zero prefix does parse, and such an entry is listed.
C5_UnparseablePrefixesAreIgnored ==
    /\ (Top = "restore" /\ last.outcome = "listed") =>
          /\ \A i \in 1..Len(items) : IndexOf(items[i]).ok
          /\ \A n \in DOMAIN entries :
                (entries[n].kind = "file" /\ IndexOf(n).ok /\ IndexOf(n).val = 0)
                    => n \in Range(items)
    /\ (ui.pc = "copy" /\ last.outcome = "scanned") =>
          ui.number = NextOver({n \in DOMAIN entries :
                           entries[n].kind = "file" /\ ~NotPositive(n)})
    /\ (last.op = "restore" /\ last.outcome = "DirectoryUnreadable") =>
          ~dir_exists

\* C5's case: a listing taken beside a non-numeric, an empty and a zero
\* prefix, and a scan beside them
C5_Witness ==
    /\ Top = "restore"
    /\ last.outcome = "listed"
    /\ {<<"a", "b", "c">>, <<"_", "x">>, <<"0", "_", "x">>} \subseteq DOMAIN entries
    /\ <<"0", "_", "x">> \in Range(items)
    /\ <<"a", "b", "c">> \notin Range(items)
    /\ Len(items) >= 2

\* C6: a snapshot keeps the bytes it was created with whatever is created
\* later, and restoring it writes exactly those bytes to the tracked file.
C6_SnapshotsAreImmutable ==
    /\ \A n \in DOMAIN entries :
          entries[n].born # ExtBytes => entries[n].data = entries[n].born
    /\ (last.op = "restore" /\ last.outcome = "restored") =>
          /\ last.name \in DOMAIN entries
          /\ file = entries[last.name].born

\* C6's case: a snapshot restored after later snapshots of other content
\* were created
C6_Witness ==
    /\ last.op = "restore"
    /\ last.outcome = "restored"
    /\ \E m \in DOMAIN entries :
          /\ IndexOf(m).val > IndexOf(last.name).val
          /\ entries[m].data # entries[last.name].data

\* C7: a create whose source is not a regular file ends in SourceMissing,
\* shown in a dialog or logged, and leaves the directory's entries as they
\* were.
C7_SourceMissingChangesNothing ==
    [][ (/\ last'.op \in {"backup", "backup_core"}
         /\ save_file # Unset
         /\ file = NoFile)
        => /\ last'.outcome = "SourceMissing"
           /\ entries' = entries
           /\ assigned' = assigned
           /\ (last'.who = 0 /\ ui.via # "note")
                 => layers' # layers /\ layers'[Len(layers')] \in Messages
      ]_vars

\* C7's case: a create that failed for its missing source beside earlier
\* snapshots
C7_Witness ==
    /\ last.op = "backup_core"
    /\ last.outcome = "SourceMissing"
    /\ DOMAIN entries # {}

(***************************************************************************)
(* Properties of the watch sessions.                                       *)
(***************************************************************************)
\* the snapshots the thread of session s has created
MadeBy(s) == Cardinality({k \in 1..Len(assigned) : assigned[k].by = s})

\* the Write events of session s that its thread has yet to answer: those
\* buffered in the channel and the one whose backup_core is under way
Owed(s) ==
    Cardinality({i \in 1..Len(chan[s]) : chan[s][i] = "Write"})
    + (IF thread[s].pc = "copy" THEN 1 ELSE 0)

\* the watcher belongs to session s and has not been dropped
Watching(s) == sessions = s /\ watcher.alive

\* C8: the raw writes of a burst produce one snapshot and not one each.  A
\* Write is emitted only when the window has passed since the last raw write
\* of the burst; each burst emits at most one Write and each Write is
\* answered by at most one snapshot; and when the watch still stands, the
\* burst is over and the thread is back at recv with nothing buffered, the
\* session has made exactly one snapshot per burst.
C8_OneSnapshotPerBurst ==
    [][ /\ last'.op = "debounce"
           => /\ watcher.pending
              /\ watcher.quiet >= DEBOUNCE_SECS
        /\ \A s \in Sessions :
              /\ MadeBy(s)' + Owed(s)' <= thread'[s].emitted
              /\ Receiving(s)' => MadeBy(s)' + Owed(s)' = thread'[s].emitted
              /\ Watching(s)' =>
                    thread'[s].emitted + (IF watcher'.pending THEN 1 ELSE 0)
                       <= watcher'.bursts
              /\ (/\ Watching(s)'
                  /\ watcher'.watching
                  /\ ~watcher'.pending
                  /\ thread'[s].pc = "recv"
                  /\ Owed(s)' = 0)
                 => MadeBy(s)' = watcher'.bursts
      ]_vars

\* C8's case: a burst of MaxBurst raw writes, the only one of its session,
\* has been answered by one snapshot
C8_Witness ==
    /\ sessions >= 1
    /\ Watching(sessions)
    /\ watcher.watching
    /\ ~watcher.pending
    /\ watcher.burst = MaxBurst
    /\ watcher.bursts = 1
    /\ thread[sessions].pc = "recv"
    /\ Owed(sessions) = 0
    /\ MadeBy(sessions) = 1

\* C9: the thread of a session begins no backup_core, and so creates no
\* snapshot, once that session was cancelled, whatever was queued for it.
C9_NoSnapshotAfterCancel ==
    \A k \in 1..Len(assigned) : ~assigned[k].late

\* a thread that has left its loop
Stopped(s) == thread[s].pc \in {"faulted", "closed"}

\* C10: a thread whose backup_core fails, or whose channel has lost its
\* sender, leaves its loop at once, and the event loop's dialogs are not
\* touched by that; a thread that has left its loop stays where it is and
\* creates no snapshot, whatever is written later.
C10_FaultedIsTerminal ==
    [][ \A s \in Sessions :
          /\ (/\ last'.who = s
              /\ \/ last'.op = "backup_core" /\ last'.outcome # "created"
                 \/ last'.op = "recv" /\ last'.outcome = "WatchChannelError")
             => /\ Stopped(s)'
                /\ Owed(s)' = 0
                /\ <<ui, layers, entries>>' = <<ui, layers, entries>>
          /\ Stopped(s)
             => /\ thread'[s].pc = thread[s].pc
                /\ chan'[s] = <<>>
                /\ MadeBy(s)' = MadeBy(s)
      ]_vars

\* C10's case: the watcher emits the Write of a later burst for a session
\* whose thread has faulted
C10_Witness ==
    /\ last.op = "debounce"
    /\ thread[last.who].pc = "faulted"
    /\ Watching(last.who)
    /\ watcher.bursts >= 2

(***************************************************************************)
(* Properties of a manual backup beside a watch session's thread.          *)
(***************************************************************************)
\* the record of the snapshot created last
LastCreated == assigned[Len(assigned)]

\* C11: nothing keeps two backup_core calls apart.  Every copy that succeeds
\* writes the tracked file's bytes to its name whether or not the name is
\* there already and touches no other entry; when the name is there, the
\* index was read by an earlier create as well, and that create's snapshot
\* is overwritten.
C11_CreatesMayCollide ==
    [][ (last'.op = "backup_core" /\ last'.outcome = "created")
        => /\ DOMAIN entries' = DOMAIN entries \cup {last'.name}
           /\ entries'[last'.name].kind = "file"
           /\ entries'[last'.name].data = file
           /\ \A n \in DOMAIN entries \ {last'.name} : entries'[n] = entries[n]
           /\ Len(assigned') = Len(assigned) + 1
           /\ last'.name \in DOMAIN entries
                => \E k \in 1..Len(assigned) :
                      assigned[k].index = LastCreated'.index
      ]_vars

\* C11's case: the event loop and a session's thread were given the same
\* index, and the later copy replaced the bytes of the earlier one
C11_Witness ==
    /\ last.op = "backup_core"
    /\ last.outcome = "created"
    /\ \E i, j \in 1..Len(assigned) :
          /\ i < j
          /\ assigned[i].index = assigned[j].index
          /\ assigned[i].by # assigned[j].by
          /\ 0 \in {assigned[i].by, assigned[j].by}
    /\ entries[last.name].data # entries[last.name].born

(***************************************************************************)
(* Further properties of the watch sessions.                               *)
(***************************************************************************)
\* C12: when the Cancel button's callback has returned, the thread of the
\* cancelled session has left its loop.
C12_CancelledThreadHasStopped ==
    \A s \in Sessions : thread[s].cancelled => Stopped(s)

\* C13: the thread begins backup_core when, and only when, the event it
\* receives is the debounced Write; the snapshot it then creates is named by
\* the bare index; any other event received, an Error among them, leaves
\* the directory as it is and the thread at recv.
C13_OnlyWriteTriggers ==
    [][ \A s \in Sessions :
          /\ (last'.op = "recv" /\ last'.who = s /\ chan[s] # <<>>)
             => IF Head(chan[s]) = "Write"
                THEN /\ thread'[s].pc = "copy"
                     /\ last'.outcome = "scanned"
                ELSE /\ thread'[s].pc = "recv"
                     /\ last'.outcome = "ignored"
                     /\ entries' = entries
                     /\ assigned' = assigned
          /\ (thread'[s].pc = "copy" /\ thread[s].pc # "copy")
             => chan[s] # <<>> /\ Head(chan[s]) = "Write"
          /\ (last'.op = "backup_core" /\ last'.who = s
                /\ last'.outcome = "created")
             => /\ \A i \in 1..Len(last'.name) : IsDigit(last'.name[i])
                /\ IndexOf(last'.name) = Some(LastCreated'.index)
                /\ LastCreated'.by = s
      ]_vars

\* C13's case: a thread that has already made a snapshot receives an Error
\* event and stays at recv
C13_Witness ==
    /\ last.op = "recv"
    /\ last.outcome = "ignored"
    /\ last.name = <<"Error">>
    /\ thread[last.who].pc = "recv"
    /\ MadeBy(last.who) >= 1
    /\ <<"1">> \in DOMAIN entries

(***************************************************************************)
(* Further properties of the snapshot store.                               *)
(***************************************************************************)
\* t is s without its leading and trailing whitespace
IsTrimOf(t, s) ==
    \E i \in 1..Len(s) + 1 : \E j \in 0..Len(s) :
        /\ t = SubSeq(s, i, j)
        /\ \A k \in 1..Len(s) : (k < i \/ k > j) => IsWhite(s[k])
        /\ t # <<>> => ~IsWhite(t[1]) /\ ~IsWhite(t[Len(t)])

\* C14: a successful create names its entry by the index alone when the
\* note is empty, and by the index, '_' and the note without its surrounding
\* whitespace otherwise; the text before the name's first '_' parses back to
\* the index, whatever the note holds.
C14_NameEncodesIndexAndNote ==
    [][ (last'.op = "backup_core" /\ last'.who = 0 /\ last'.outcome = "created")
        => LET digits == to_string(ui.number)
               name == last'.name
           IN  /\ LastCreated'.index = ui.number
               /\ IndexOf(name) = Some(ui.number)
               /\ ui.note = <<>> => name = digits
               /\ ui.note # <<>> =>
                     /\ Len(name) > Len(digits)
                     /\ SubSeq(name, 1, Len(digits) + 1) = digits \o <<"_">>
                     /\ IsTrimOf(SubSeq(name, Len(digits) + 2, Len(name)), ui.note)
      ]_vars

\* C14's case: a create whose note is padded and holds '_', beside the
\* snapshot of a create whose note was blank
C14_Witness ==
    /\ last.op = "backup_core"
    /\ last.outcome = "created"
    /\ last.name = to_string(LastCreated.index) \o <<"_", "b", "_", "r">>
    /\ \E n \in DOMAIN entries : n # last.name /\ n[Len(n)] = "_"

(***************************************************************************)
(* Properties of the operations' error paths.                              *)
(***************************************************************************)
\* C15: without a configured save file, "Make a new backup" (with or
\* without note), "Restore a backup" and "Automatically take backups" each
\* end in NotConfigured, which select_option shows in a dialog, and change
\* nothing else: no directory, no snapshot, no watcher, no thread.
C15_NotConfiguredDoesNothing ==
    [][ (save_file = Unset /\ last'.op \in {"backup", "restore", "auto"})
        => /\ last'.outcome = "NotConfigured"
           /\ Len(layers') = Len(layers) + 1
           /\ layers'[Len(layers')] \in Messages
           /\ UNCHANGED <<save_file, file, dir_exists, entries, items, ui,
                          sessions, watcher, chan, thread, assigned>>
      ]_vars

\* C15's case: "Automatically take backups" chosen with a save file on disk
\* and none configured
C15_Witness ==
    /\ last.op = "auto"
    /\ last.outcome = "NotConfigured"
    /\ save_file = Unset
    /\ file # NoFile
    /\ sessions = 0
    /\ ~dir_exists

\* C16: when the watch on the tracked file cannot be set up, auto returns
\* the error, which is shown in a dialog at once; no session is begun, no
\* thread spawned, no directory created, and no snapshot follows from that
\* call.
C16_WatchInitErrorStartsNothing ==
    [][ (last'.op = "auto" /\ save_file # Unset /\ file = NoFile)
        => /\ last'.outcome = "WatchInitError"
           /\ layers' = Append(layers, "Error occurred: watch")
           /\ UNCHANGED <<save_file, file, dir_exists, entries, items, ui,
                          sessions, watcher, chan, thread, assigned>>
           /\ \A s \in Sessions : s > sessions => thread'[s].pc = "none"
      ]_vars

\* C16's case: the save file of an earlier session is gone when
\* "Automatically take backups" is chosen again
C16_Witness ==
    /\ last.op = "auto"
    /\ last.outcome = "WatchInitError"
    /\ file = NoFile
    /\ dir_exists
    /\ ~watcher.alive

\* C17: a restore, from the listing to the choice of an item, successful or
\* failed, leaves the snapshot directory's entries, their contents and the
\* next index as they were; the tracked file alone changes, and only when
\* the copy succeeds.
C17_RestoreChangesOnlyTheFile ==
    [][ last'.op = "restore"
        => /\ entries' = entries
           /\ dir_exists' = dir_exists
           /\ save_number(entries') = save_number(entries)
           /\ assigned' = assigned
           /\ IF last'.outcome = "restored"
              THEN file' = entries[last'.name].data
              ELSE file' = file
      ]_vars

\* C17's case: the chosen snapshot was deleted while the listing was open,
\* so the copy fails beside the snapshots that remain
C17_Witness ==
    /\ last.op = "restore"
    /\ last.outcome = "IOError"
    /\ last.name \notin DOMAIN entries
    /\ restore_filter(entries) # {}
    /\ file # NoFile

=============================================================================
